---------------------------- MODULE Spec2Model ----------------------------
(***************************************************************************)
(* The CHIP-8 register file of chirp-8 (src/emulator/registers.rs):        *)
(* sixteen 8-bit registers V0..VF, the 16-bit address register I, the      *)
(* 16-bit program counter PC and the call stack, a Vec<u16>.               *)
(*                                                                         *)
(* Every method of `impl Registers` that mutates the value is one action.  *)
(* The getters are operators on the state.  Each action also records what  *)
(* the caller can observe of the call: which method ran (op), its          *)
(* arguments (args), its return value (ret), the line it printed (diag)    *)
(* and whether the call panicked (aborted).                                *)
(***************************************************************************)
EXTENDS Integers, Sequences, FiniteSets, TLC

VARIABLES
    v,                \* Registers.v: [u8; 16], indexed 0..15
    i,                \* Registers.i: u16
    pc,               \* Registers.pc: u16
    stack,            \* Registers.stack: Vec<u16>
    overflow_checks,  \* the build: TRUE when integer overflow panics (cargo's
                      \* dev profile), FALSE when it wraps (release profile)
    aborted,          \* TRUE once a call has panicked; the process is gone
    op,               \* the method called last
    args,             \* its arguments
    ret,              \* its return value: <<>> for (), <<x>> for x
    diag,             \* what it printed: "none", "overflow" or "underflow"
    script,           \* test driver: the values to push, in order
    pos,              \* test driver: how many of them have been pushed
    popped            \* test driver: the values popped so far, in order

driver == <<script, pos, popped>>
vars == <<v, i, pc, stack, overflow_checks, aborted, op, args, ret, diag,
          script, pos, popped>>

-----------------------------------------------------------------------------
(* Program constants.                                                      *)

U8 == 256                \* v: [u8; 16] holds values 0..255
U16 == 65536             \* i, pc and the stack entries are u16
NUM_V == 16              \* v: [u8; 16]
VF_INDEX == 15           \* 0x0F in vf() and set_vf()
PC_START == 512          \* pc: 0x200 in new()
STACK_LIMIT == 16        \* `if self.stack.len() > 16`

(* Bounds of the model.                                                    *)

MaxIncr == 3             \* increment_pc runs this far from a set_pc input
MaxStack == 3            \* stack depth explored with free push arguments
MaxPushes == 20          \* longest scripted run of pushes

VIndex == 0 .. (NUM_V - 1)

(* Inputs the operations are called with.                                  *)

XInputs == {0, 7, VF_INDEX}
ByteInputs == {0, U8 - 1}
IInputs == {0, U16 - 1}
PcInputs == {PC_START, PC_START + 1, U16 - 2, U16 - 1}
StackInputs == {PC_START, 676}

-----------------------------------------------------------------------------
(* The getters: pure reads of the state.                                   *)

get_v(x) == v[x]

vf == get_v(VF_INDEX)

get_i == i

get_pc == pc

-----------------------------------------------------------------------------
(* What a call leaves for its caller to observe.                           *)

Returns(o, a, r, d) ==
    /\ op' = o
    /\ args' = a
    /\ ret' = r
    /\ diag' = d

Completes == aborted' = FALSE /\ UNCHANGED overflow_checks

Panics == aborted' = TRUE /\ UNCHANGED overflow_checks

-----------------------------------------------------------------------------
(* Registers::new                                                          *)

new_v == [x \in VIndex |-> 0]

new_i == 0

new_pc == PC_START

(* Faulty variant: the stack starts with the entry address on it.          *)
new_stack_seeded == <<PC_START>>

new_stack == << >>

new ==
    /\ ~aborted
    /\ v' = new_v
    /\ i' = new_i
    /\ pc' = new_pc
    /\ stack' = new_stack
    /\ Returns("new", << >>, << >>, "none")
    /\ Completes

(* Registers::set_v: self.v[x as usize] = value.  The callers pass x in    *)
(* 0..15 (a 4-bit field of the opcode); the model calls it with no other.  *)

(* Faulty variant: the write lands one register too far.                   *)
store_v_next(x, value) ==
    /\ v' = [v EXCEPT ![(x + 1) % NUM_V] = value]
    /\ UNCHANGED <<i, pc, stack>>

store_v(x, value) ==
    /\ v' = [v EXCEPT ![x] = value]
    /\ UNCHANGED <<i, pc, stack>>

set_v(x, value) ==
    /\ ~aborted
    /\ store_v(x, value)
    /\ Returns("set_v", <<x, value>>, << >>, "none")
    /\ Completes

(* Registers::set_vf: self.set_v(0x0F, value)                              *)

(* Faulty variant: the flag accessor addresses 0x0E.                       *)
set_vf_0e(value) ==
    /\ ~aborted
    /\ store_v(VF_INDEX - 1, value)
    /\ Returns("set_vf", <<value>>, << >>, "none")
    /\ Completes

set_vf(value) ==
    /\ ~aborted
    /\ store_v(VF_INDEX, value)
    /\ Returns("set_vf", <<value>>, << >>, "none")
    /\ Completes

(* Registers::set_i                                                        *)

set_i(value) ==
    /\ ~aborted
    /\ i' = value
    /\ UNCHANGED <<v, pc, stack>>
    /\ Returns("set_i", <<value>>, << >>, "none")
    /\ Completes

(* Registers::set_pc                                                       *)

set_pc(value) ==
    /\ ~aborted
    /\ pc' = value
    /\ UNCHANGED <<v, i, stack>>
    /\ Returns("set_pc", <<value>>, << >>, "none")
    /\ Completes

(* Registers::increment_pc: self.pc += 2 on a u16.  When the sum does not  *)
(* fit, a build with overflow checks panics ("attempt to add with          *)
(* overflow") before the store, and a build without them wraps.            *)

(* Faulty variant: PC advances by one byte instead of one instruction.     *)
increment_pc_by_one ==
    /\ ~aborted
    /\ UNCHANGED <<v, i, stack>>
    /\ Returns("increment_pc", << >>, << >>, "none")
    /\ IF pc + 1 < U16
         THEN pc' = pc + 1 /\ Completes
         ELSE IF overflow_checks
                THEN pc' = pc /\ Panics
                ELSE pc' = (pc + 1) % U16 /\ Completes

increment_pc ==
    /\ ~aborted
    /\ UNCHANGED <<v, i, stack>>
    /\ Returns("increment_pc", << >>, << >>, "none")
    /\ IF pc + 2 < U16
         THEN pc' = pc + 2 /\ Completes
         ELSE IF overflow_checks
                THEN pc' = pc /\ Panics
                ELSE pc' = (pc + 2) % U16 /\ Completes

(* Registers::push_stack                                                   *)

(* Variant: the diagnostic is printed from a length of 16 on.              *)
push_stack_at_limit(value) ==
    /\ ~aborted
    /\ stack' = Append(stack, value)
    /\ UNCHANGED <<v, i, pc>>
    /\ Returns("push_stack", <<value>>, << >>,
               IF Len(stack) >= STACK_LIMIT THEN "overflow" ELSE "none")
    /\ Completes

push_stack(value) ==
    /\ ~aborted
    /\ stack' = Append(stack, value)
    /\ UNCHANGED <<v, i, pc>>
    /\ Returns("push_stack", <<value>>, << >>,
               IF Len(stack) > STACK_LIMIT THEN "overflow" ELSE "none")
    /\ Completes

(* Registers::pop_stack: Vec::pop, or 0 and a printed line when empty      *)

(* Faulty variant: the oldest entry is removed and returned.               *)
pop_stack_fifo ==
    /\ ~aborted
    /\ UNCHANGED <<v, i, pc>>
    /\ IF stack = << >>
         THEN /\ stack' = stack
              /\ Returns("pop_stack", << >>, <<0>>, "underflow")
         ELSE /\ stack' = Tail(stack)
              /\ Returns("pop_stack", << >>, <<Head(stack)>>, "none")
    /\ Completes

(* Faulty variant: Vec::pop().unwrap(), which panics on an empty stack.    *)
pop_stack_unwrap ==
    /\ ~aborted
    /\ UNCHANGED <<v, i, pc>>
    /\ UNCHANGED overflow_checks
    /\ IF stack = << >>
         THEN /\ stack' = stack
              /\ Returns("pop_stack", << >>, << >>, "none")
              /\ aborted' = TRUE
         ELSE /\ stack' = SubSeq(stack, 1, Len(stack) - 1)
              /\ Returns("pop_stack", << >>, <<stack[Len(stack)]>>, "none")
              /\ aborted' = FALSE

pop_stack ==
    /\ ~aborted
    /\ UNCHANGED <<v, i, pc>>
    /\ IF stack = << >>
         THEN /\ stack' = stack
              /\ Returns("pop_stack", << >>, <<0>>, "underflow")
         ELSE /\ stack' = SubSeq(stack, 1, Len(stack) - 1)
              /\ Returns("pop_stack", << >>, <<stack[Len(stack)]>>, "none")
    /\ Completes

-----------------------------------------------------------------------------
(* The register file under any sequence of calls.                          *)

Fresh ==
    /\ v = new_v
    /\ i = new_i
    /\ pc = new_pc
    /\ stack = new_stack
    /\ op = "new"
    /\ args = << >>
    /\ ret = << >>
    /\ diag = "none"
    /\ aborted = FALSE
    /\ overflow_checks \in BOOLEAN

Init ==
    /\ Fresh
    /\ script = << >>
    /\ pos = 0
    /\ popped = << >>

(* increment_pc is explored within MaxIncr steps of the initial PC or of   *)
(* a set_pc input.                                                         *)
NearInput ==
    \E q \in PcInputs : \E k \in 0 .. (MaxIncr - 1) : pc = (q + 2 * k) % U16

New == new /\ UNCHANGED driver

SetV == \E x \in XInputs, value \in ByteInputs : set_v(x, value) /\ UNCHANGED driver

SetVf == \E value \in ByteInputs : set_vf(value) /\ UNCHANGED driver

SetI == \E value \in IInputs : set_i(value) /\ UNCHANGED driver

SetPc == \E value \in PcInputs : set_pc(value) /\ UNCHANGED driver

IncrementPc == NearInput /\ increment_pc /\ UNCHANGED driver

PushStack ==
    /\ Len(stack) < MaxStack
    /\ \E value \in StackInputs : push_stack(value)
    /\ UNCHANGED driver

PopStack == pop_stack /\ UNCHANGED driver

Next ==
    \/ New
    \/ SetV
    \/ SetVf
    \/ SetI
    \/ SetPc
    \/ IncrementPc
    \/ PushStack
    \/ PopStack

Spec == Init /\ [][Next]_vars

-----------------------------------------------------------------------------
(* A scripted run on a fresh register file: push every value of the        *)
(* script, then pop as many times as was pushed.                           *)

ScriptAddr(a, b, k) == PC_START + 2 * ((a * k + b) % 3)

Scripts ==
    { [k \in 1 .. n |-> ScriptAddr(a, b, k)] :
        n \in 0 .. MaxPushes, a \in 0 .. 2, b \in 0 .. 2 }

InitLifo ==
    /\ Fresh
    /\ script \in Scripts
    /\ pos = 0
    /\ popped = << >>

ScriptPush ==
    /\ pos < Len(script)
    /\ push_stack(script[pos + 1])
    /\ pos' = pos + 1
    /\ UNCHANGED <<script, popped>>

ScriptPop ==
    /\ pos = Len(script)
    /\ Len(popped) < Len(script)
    /\ pop_stack
    /\ popped' = Append(popped, ret'[1])
    /\ UNCHANGED <<script, pos>>

NextLifo ==
    \/ ScriptPush
    \/ ScriptPop

SpecLifo == InitLifo /\ [][NextLifo]_vars

-----------------------------------------------------------------------------
(* The values every reachable state keeps within their Rust types.         *)

TypeOK ==
    /\ v \in [VIndex -> 0 .. (U8 - 1)]
    /\ i \in 0 .. (U16 - 1)
    /\ pc \in 0 .. (U16 - 1)
    /\ \A k \in 1 .. Len(stack) : stack[k] \in 0 .. (U16 - 1)
    /\ aborted \in BOOLEAN
    /\ diag \in {"none", "overflow", "underflow"}

-----------------------------------------------------------------------------
(* C1: in a scripted run, every push completes and appends its value, so   *)
(* while pushing the stack is the pushed prefix of the script; the pops    *)
(* that follow return the pushed values in reverse order of pushing; and   *)
(* after as many pops as pushes the stack is empty.  Runs of up to         *)
(* MaxPushes pushes, more than the nominal 16.                             *)
LifoOrder ==
    LET n == Len(script)
    IN  /\ ~aborted
        /\ popped = [k \in 1 .. Len(popped) |-> script[n + 1 - k]]
        /\ stack = SubSeq(script, 1, pos - Len(popped))
        /\ (op = "push_stack" => args = <<script[pos]>> /\ stack[pos] = script[pos])
        /\ (pos = n /\ Len(popped) = n => stack = << >>)

(* Twenty distinct-neighbour values pushed and all twenty popped again.    *)
LifoWitness ==
    /\ Len(script) = 20
    /\ Len(popped) = 20
    /\ script[1] # script[2]
    /\ op = "pop_stack"
    /\ ret = <<script[1]>>

(* C2: one increment_pc call from any 16-bit PC value p completes and      *)
(* leaves PC equal to p + 2.                                               *)
IncrementAddsTwo ==
    [][op' = "increment_pc" => aborted' = FALSE /\ get_pc' = pc + 2]_vars

(* C3: no operation of the register file is fatal: no call ever panics.    *)
NoOperationIsFatal == aborted = FALSE

(* C4: pop_stack on an empty stack returns 0, prints the underflow         *)
(* diagnostic, leaves the stack empty and every other field unchanged and  *)
(* does not panic, so the state is that of an empty stack again; a pop on  *)
(* a non-empty stack prints nothing and removes and returns the last       *)
(* entry.                                                                  *)
PopUnderflowIsSafe ==
    [][op' = "pop_stack" =>
         /\ aborted' = FALSE
         /\ UNCHANGED <<v, i, pc>>
         /\ IF stack = << >>
              THEN ret' = <<0>> /\ diag' = "underflow" /\ stack' = << >>
              ELSE /\ diag' = "none"
                   /\ ret' = <<stack[Len(stack)]>>
                   /\ stack' = SubSeq(stack, 1, Len(stack) - 1)]_vars

(* An underflow on a register file whose other fields are not the initial  *)
(* ones.                                                                   *)
PopUnderflowWitness ==
    /\ op = "pop_stack"
    /\ diag = "underflow"
    /\ ret = <<0>>
    /\ stack = << >>
    /\ pc # PC_START
    /\ i # 0
    /\ v[0] # 0

PushReportsAboveLimit ==
    [][op' = "push_stack" =>
         /\ aborted' = FALSE
         /\ (diag' = "overflow" <=> Len(stack) > 16)
         /\ (diag' = "none" <=> Len(stack) <= 16)
         /\ stack' = stack \o args'
         /\ Len(args') = 1
         /\ Len(stack') = Len(stack) + 1]_vars

(* The 18th entry: the first push that is reported.                        *)
PushReportsWitness ==
    /\ op = "push_stack"
    /\ diag = "overflow"
    /\ Len(stack) = 18

(* C7, as claimed: PC is even in every reachable state.                    *)
PcAlwaysEven == pc % 2 = 0

(* C7, amended: PC is even after construction, and from an even PC every   *)
(* operation other than set_pc with an odd argument leaves PC even,        *)
(* increment_pc at the top of the 16-bit range included; set_pc stores     *)
(* its argument as given.                                                  *)
PcEvenUnlessSetOdd ==
    /\ [](op = "new" => pc % 2 = 0)
    /\ [][op' = "set_pc" => pc' = args'[1]]_vars
    /\ [][pc % 2 = 0 /\ ~(op' = "set_pc" /\ args'[1] % 2 = 1)
            => pc' % 2 = 0]_vars

(* increment_pc has wrapped at the top of the range and PC is still even.  *)
PcEvenWitness ==
    /\ op = "increment_pc"
    /\ aborted = FALSE
    /\ pc = 0

(* C8: after set_v(x, value), v(x) returns value, every other register     *)
(* keeps its prior value (VF too unless x is 15), and I, PC and the stack  *)
(* are untouched.                                                          *)
SetVRoundTrip ==
    /\ [](op = "set_v" => aborted = FALSE /\ get_v(args[1]) = args[2])
    /\ [][op' = "set_v" =>
            /\ \A y \in VIndex \ {args'[1]} : v'[y] = get_v(y)
            /\ (args'[1] # 15 => vf' = vf)
            /\ UNCHANGED <<i, pc, stack>>]_vars

(* V0 written while VF, V7, I, PC and the stack hold other values.         *)
SetVWitness ==
    /\ op = "set_v"
    /\ args = <<0, 0>>
    /\ v[0] = 0
    /\ v[7] = 255
    /\ v[15] = 255
    /\ i # 0
    /\ pc # PC_START
    /\ stack # << >>

(* C9: vf/set_vf and v(15)/set_v(15, _) address the same slot: after       *)
(* set_vf(value), v(15) returns value; after set_v(15, value), vf()        *)
(* returns value; and set_vf changes no register other than V[15].         *)
VfAliasesV15 ==
    /\ [](op = "set_vf" => get_v(15) = args[1])
    /\ [](op = "set_v" /\ args[1] = 15 => vf = args[2])
    /\ [][op' = "set_vf" =>
            /\ \A y \in VIndex \ {15} : v'[y] = v[y]
            /\ UNCHANGED <<i, pc, stack>>]_vars

(* set_vf has written a value that V14 and V0 do not hold.                 *)
VfAliasWitness ==
    /\ op = "set_vf"
    /\ args = <<255>>
    /\ v[15] = 255
    /\ v[0] = 0
    /\ v[7] = 0

(* C10: a freshly constructed Registers value has PC = 0x200, every V[x]   *)
(* zero, I zero and an empty stack, so a pop_stack right after new         *)
(* underflows and returns 0.                                               *)
FreshState ==
    /\ [](op = "new" =>
            /\ get_pc = 512
            /\ \A x \in 0 .. 15 : get_v(x) = 0
            /\ get_i = 0
            /\ stack = << >>)
    /\ [][op = "new" /\ op' = "pop_stack" =>
            ret' = <<0>> /\ diag' = "underflow"]_vars

(* An immediate pop on a freshly constructed register file.                *)
FreshWitness ==
    /\ op = "pop_stack"
    /\ ret = <<0>>
    /\ diag = "underflow"
    /\ pc = 512
    /\ i = 0
    /\ \A x \in 0 .. 15 : v[x] = 0

=============================================================================
